---- MODULE Spec2Model ----
(***************************************************************************)
(* Model of the two journal-list conversion scripts                        *)
(*   scripts/extract_journal_proper.py  (all sheets, merge + post-filter)  *)
(*   scripts/check_excel.py             (first sheet only, plain insert)   *)
(*                                                                         *)
(* Text is a sequence of one-character atoms.  A character that has no     *)
(* ASCII spelling is written as a short atom: "sz" is the German sharp s   *)
(* (U+00DF), "jeo" "neol" "peo" "sen" "bun" "ya" "sun" "wi" are the Hangul *)
(* syllables of the Korean header tokens.  Numbers are integers (cells     *)
(* holding whole numbers); a cell is NaN, a number or a text.              *)
(***************************************************************************)
EXTENDS Integers, Sequences, FiniteSets, TLC

(***************************************************************************)
(* Values: Python None, and the three kinds of spreadsheet cell.           *)
(***************************************************************************)
NoneV == [t |-> "none"]
NaN == [t |-> "nan"]
Num(n) == [t |-> "num", v |-> n]
Str(s) == [t |-> "str", s |-> s]

IsNone(x) == x.t = "none"
IsNum(x) == x.t = "num"
IsStr(x) == x.t = "str"

(***************************************************************************)
(* Python str methods, as far as the scripts use them.                     *)
(***************************************************************************)
LowerLetters ==
  <<"a","b","c","d","e","f","g","h","i","j","k","l","m",
    "n","o","p","q","r","s","t","u","v","w","x","y","z">>
UpperLetters ==
  <<"A","B","C","D","E","F","G","H","I","J","K","L","M",
    "N","O","P","Q","R","S","T","U","V","W","X","Y","Z">>
Digits == <<"0","1","2","3","4","5","6","7","8","9">>

IndexIn(c, list) ==
  IF \E i \in 1..Len(list) : list[i] = c
  THEN CHOOSE i \in 1..Len(list) : list[i] = c
  ELSE 0

\* str.upper() of one character: full Unicode case mapping, so the sharp s
\* becomes the two letters "SS"; characters without case map to themselves.
UpperChar(c) ==
  IF IndexIn(c, LowerLetters) > 0 THEN <<UpperLetters[IndexIn(c, LowerLetters)]>>
  ELSE IF c = "sz" THEN <<"S", "S">>
  ELSE <<c>>

\* str.lower() of one character: the sharp s is already lower case.
LowerChar(c) ==
  IF IndexIn(c, UpperLetters) > 0 THEN <<LowerLetters[IndexIn(c, UpperLetters)]>>
  ELSE <<c>>

RECURSIVE Upper(_)
Upper(s) == IF s = <<>> THEN <<>> ELSE UpperChar(Head(s)) \o Upper(Tail(s))

RECURSIVE Lower(_)
Lower(s) == IF s = <<>> THEN <<>> ELSE LowerChar(Head(s)) \o Lower(Tail(s))

IsSpace(c) == c = " "

RECURSIVE LStrip(_)
LStrip(s) == IF s # <<>> /\ IsSpace(Head(s)) THEN LStrip(Tail(s)) ELSE s

RECURSIVE RStrip(_)
RStrip(s) ==
  IF s # <<>> /\ IsSpace(s[Len(s)]) THEN RStrip(SubSeq(s, 1, Len(s) - 1)) ELSE s

\* str.strip()
Strip(s) == RStrip(LStrip(s))

\* str.isdigit(): non-empty and every character a digit
IsDigit(s) == s # <<>> /\ \A i \in 1..Len(s) : IndexIn(s[i], Digits) > 0

\* tok in s
Contains(s, tok) ==
  \E i \in 1..(Len(s) - Len(tok) + 1) : SubSeq(s, i, i + Len(tok) - 1) = tok

\* s.replace(c, '') for a one-character c
RECURSIVE RemoveChar(_, _)
RemoveChar(s, c) ==
  IF s = <<>> THEN <<>>
  ELSE IF Head(s) = c THEN RemoveChar(Tail(s), c)
  ELSE <<Head(s)>> \o RemoveChar(Tail(s), c)

RECURSIVE NatToStr(_)
NatToStr(n) ==
  IF n < 10 THEN <<Digits[n + 1]>>
  ELSE NatToStr(n \div 10) \o <<Digits[(n % 10) + 1]>>

RECURSIVE StrToNat(_)
StrToNat(s) ==
  IF s = <<>> THEN 0
  ELSE 10 * StrToNat(SubSeq(s, 1, Len(s) - 1)) + (IndexIn(s[Len(s)], Digits) - 1)

\* str(x) of a cell or of a column header
PyStr(x) ==
  IF IsStr(x) THEN x.s
  ELSE IF IsNum(x) THEN (IF x.v < 0 THEN <<"-">> \o NatToStr(-x.v) ELSE NatToStr(x.v))
  ELSE <<"n", "a", "n">>

\* pd.notna(x)
NotNa(x) == x.t # "nan"

\* The number a text spells: surrounding blanks are ignored, an optional
\* minus sign, then digits.  NoneV stands for ValueError.
ParseNumber(s) ==
  LET b == Strip(s)
      neg == b # <<>> /\ Head(b) = "-"
      d == IF neg THEN Tail(b) ELSE b
  IN IF IsDigit(d) THEN Num(IF neg THEN -StrToNat(d) ELSE StrToNat(d)) ELSE NoneV

\* float(x): NoneV stands for the exception the scripts swallow
PyFloat(x) == IF IsNum(x) THEN x ELSE IF IsStr(x) THEN ParseNumber(x.s) ELSE NoneV

\* int(x)
PyInt(x) == IF IsNum(x) THEN x ELSE IF IsStr(x) THEN ParseNumber(x.s) ELSE NoneV

\* Python truthiness of None, a number or a text
Truthy(x) ==
  IF IsNone(x) THEN FALSE
  ELSE IF IsNum(x) THEN x.v # 0
  ELSE IF IsStr(x) THEN x.s # <<>>
  ELSE TRUE

(***************************************************************************)
(* Header tokens of the column classifiers.                                *)
(***************************************************************************)
TokJournal == <<"j","o","u","r","n","a","l">>
TokTitle == <<"t","i","t","l","e">>
TokName == <<"n","a","m","e">>
TokImpact == <<"i","m","p","a","c","t">>
TokFactor == <<"f","a","c","t","o","r">>
TokJif == <<"j","i","f">>
TokIf == <<"i","f">>
Tok2023 == <<"2","0","2","3">>
Tok2022 == <<"2","0","2","2">>
TokPercentile == <<"p","e","r","c","e","n","t","i","l","e">>
TokPercentSign == <<"%">>
TokCategory == <<"c","a","t","e","g","o","r","y">>
TokField == <<"f","i","e","l","d">>
TokRank == <<"r","a","n","k">>
KoJournal == <<"jeo","neol">>
KoPercent == <<"peo","sen">>
KoField == <<"bun","ya">>
KoRank == <<"sun","wi">>

(***************************************************************************)
(* extract_journal_proper.py: the per-row column scan.  cols is df.columns *)
(* and r the row: r[i] is the cell under the header cols[i].               *)
(***************************************************************************)
\* does the header of column col classify it as field f
ProperHeaderMatches(f, col) ==
  LET raw == PyStr(col)
      col_str == Lower(raw)
  IN CASE f = "name" ->
            Contains(col_str, TokJournal) \/ Contains(col_str, TokTitle)
              \/ Contains(raw, KoJournal)
       [] f = "impact" ->
            \E tok \in {TokImpact, TokFactor, TokJif, Tok2023, Tok2022} :
               Contains(col_str, tok)
       [] f = "percentile" ->
            Contains(col_str, TokPercentile) \/ Contains(raw, TokPercentSign)
              \/ Contains(raw, KoPercent)
       [] f = "category" ->
            Contains(col_str, TokCategory) \/ Contains(col_str, TokField)
              \/ Contains(raw, KoField)
       [] f = "rank" ->
            Contains(col_str, TokRank) \/ Contains(raw, KoRank)

IfUpper == 500
PercentileMax == 100
MinNameLen == 3
Year == 2023

\* Mutant: the impact-factor range check accepts the upper limit itself.
ProperAcceptsMutInclusive(f, val) ==
  CASE f = "name" ->
         NotNa(val) /\ Strip(PyStr(val)) # <<>> /\ ~IsDigit(PyStr(val))
    [] f = "impact" ->
         NotNa(val) /\ IsNum(PyFloat(val))
           /\ PyFloat(val).v > 0 /\ PyFloat(val).v <= IfUpper
    [] f = "percentile" ->
         NotNa(val)
           /\ LET p == PyFloat(Str(RemoveChar(PyStr(val), "%")))
              IN IsNum(p) /\ 0 <= p.v /\ p.v <= PercentileMax
    [] f = "category" -> NotNa(val)
    [] f = "rank" -> NotNa(val)

\* does the cell under a column classified as f assign the field
ProperAccepts(f, val) ==
  CASE f = "name" ->
         NotNa(val) /\ Strip(PyStr(val)) # <<>> /\ ~IsDigit(PyStr(val))
    [] f = "impact" ->
         NotNa(val) /\ IsNum(PyFloat(val))
           /\ PyFloat(val).v > 0 /\ PyFloat(val).v < IfUpper
    [] f = "percentile" ->
         NotNa(val)
           /\ LET p == PyFloat(Str(RemoveChar(PyStr(val), "%")))
              IN IsNum(p) /\ 0 <= p.v /\ p.v <= PercentileMax
    [] f = "category" -> NotNa(val)
    [] f = "rank" -> NotNa(val)

\* the value the cell assigns to the field
ProperCoerce(f, val) ==
  CASE f = "name" -> Str(Strip(PyStr(val)))
    [] f = "impact" -> PyFloat(val)
    [] f = "percentile" -> PyFloat(Str(RemoveChar(PyStr(val), "%")))
    [] f = "category" -> Str(Strip(PyStr(val)))
    [] f = "rank" -> IF IsNum(PyInt(val)) THEN PyInt(val) ELSE Str(PyStr(val))

\* the loop over df.columns for one field: every matching column with an
\* acceptable cell assigns the field again (the loop has no break)
RECURSIVE ProperScanFrom(_, _, _, _, _)
ProperScanFrom(f, cols, r, i, acc) ==
  IF i > Len(cols) THEN acc
  ELSE ProperScanFrom(f, cols, r, i + 1,
                      IF ProperHeaderMatches(f, cols[i]) /\ ProperAccepts(f, r[i])
                      THEN ProperCoerce(f, r[i])
                      ELSE acc)

\* the field as the scan leaves it (None before the loop)
ProperScan(f, cols, r) == ProperScanFrom(f, cols, r, 1, NoneV)

\* x or d
OrElse(x, d) == IF Truthy(x) THEN x ELSE d

\* the entry dict built for a row
ProperEntry(name, imp, pct, cat, rnk, sheet) ==
  [originalName |-> name.s,
   impactFactor |-> OrElse(imp, Num(0)).v,
   percentile |-> OrElse(pct, Num(0)).v,
   category |-> OrElse(cat, Str(<<>>)).s,
   rank |-> OrElse(rnk, Str(<<>>)),
   sheet |-> sheet,
   year |-> Year]

\* Mutant: the length test looks at a name that was not trimmed.
ProperRowValidMutRaw(name) == Truthy(name) /\ Len(<<" ">> \o name.s) > MinNameLen

\* if journal_name and len(journal_name) > 3
ProperRowValid(name) == Truthy(name) /\ Len(name.s) > MinNameLen

EmptyDb == [k \in {} |-> NoneV]

\* d[k] = e
Put(d, k, e) == [j \in (DOMAIN d) \cup {k} |-> IF j = k THEN e ELSE d[j]]

\* key_upper not in journal_db or (impact_factor and impact_factor > stored)
ProperShouldStore(db, key_upper, imp) ==
  key_upper \notin DOMAIN db
    \/ (Truthy(imp) /\ imp.v > db[key_upper].impactFactor)

\* the merge block
ProperMerge(db, name, e, imp) ==
  LET key_upper == Upper(name.s)
      key_lower == Lower(name.s)
  IN IF ProperShouldStore(db, key_upper, imp)
     THEN Put(Put(db, key_upper, e), key_lower, e)
     ELSE db

\* Mutant: the handler falls through to the code that writes the file.
HandlerMutResumes(p) == IF p = "handler" THEN "save" ELSE p

\* Mutant: the fallback to the unfiltered database is missing.
FilterMutNoFallback(db) ==
  [k \in {j \in DOMAIN db : db[j].impactFactor > 0} |-> db[k]]

\* Mutant: the loop over the items skips one item.
FilterMutSkipsOne(db) ==
  LET rest == IF DOMAIN db = {} THEN {}
              ELSE (DOMAIN db) \ {CHOOSE k \in DOMAIN db : TRUE}
      kept == {j \in rest : db[j].impactFactor > 0}
  IN IF kept = {} THEN db ELSE [k \in kept |-> db[k]]

\* the post-filter: keep the records with an impact factor, or everything
\* when no record has one
Filter(db) ==
  LET kept == {j \in DOMAIN db : db[j].impactFactor > 0}
  IN IF kept = {} THEN db ELSE [k \in kept |-> db[k]]

\* len(db) // 2
UniqueCount(db) == Cardinality(DOMAIN db) \div 2

(***************************************************************************)
(* check_excel.py: its three column loops.  Each stops at the first column *)
(* that gave a usable value (break); col.lower() raises AttributeError on  *)
(* a header that is not a text, which ends the run in the handler.         *)
(***************************************************************************)
CheckHeaderMatches(f, col) ==
  LET raw == col.s
      low == Lower(raw)
  IN CASE f = "name" ->
            Contains(low, TokJournal) \/ Contains(raw, KoJournal)
              \/ Contains(low, TokName)
       [] f = "impact" ->
            Contains(low, TokImpact) \/ Contains(low, TokIf) \/ Contains(low, TokJif)
       [] f = "percentile" ->
            Contains(low, TokPercentile) \/ Contains(raw, TokPercentSign)
              \/ Contains(raw, KoPercent)

Found(v) == [val |-> v, err |-> FALSE]
Raised == [val |-> NoneV, err |-> TRUE]

RECURSIVE CheckScanNameFrom(_, _, _)
CheckScanNameFrom(cols, r, i) ==
  IF i > Len(cols) THEN Found(NoneV)
  ELSE IF ~IsStr(cols[i]) THEN Raised
  ELSE IF CheckHeaderMatches("name", cols[i]) /\ NotNa(r[i])
       THEN Found(Str(Strip(PyStr(r[i]))))
       ELSE CheckScanNameFrom(cols, r, i + 1)

CheckScanName(cols, r) == CheckScanNameFrom(cols, r, 1)

\* the impact-factor loop and the percentile loop have the same shape
RECURSIVE CheckScanNumberFrom(_, _, _, _, _)
CheckScanNumberFrom(f, cols, r, i, acc) ==
  IF i > Len(cols) THEN Found(acc)
  ELSE IF ~IsStr(cols[i]) THEN Raised
  ELSE IF CheckHeaderMatches(f, cols[i]) /\ NotNa(r[i])
       THEN LET got == IF IsNum(PyFloat(r[i])) THEN PyFloat(r[i]) ELSE acc
            IN IF Truthy(got) THEN Found(got)
               ELSE CheckScanNumberFrom(f, cols, r, i + 1, got)
       ELSE CheckScanNumberFrom(f, cols, r, i + 1, acc)

CheckScanNumber(f, cols, r) == CheckScanNumberFrom(f, cols, r, 1, NoneV)

CheckEntry(name, imp, pct) ==
  [originalName |-> name.s,
   impactFactor |-> OrElse(imp, Num(0)).v,
   percentile |-> OrElse(pct, Num(0)).v,
   year |-> Year]

\* journal_db[name.upper()] = {...}; journal_db[name.lower()] = journal_db[name.upper()]
CheckStore(db, name, e) == Put(Put(db, Upper(name.s), e), Lower(name.s), e)

(***************************************************************************)
(* The input: a workbook is a sequence of sheets; a sheet has a kind,      *)
(* which fixes its column headers and the cells each column may hold, and  *)
(* a number of rows.                                                       *)
(***************************************************************************)
MaxSheets == 2
MaxRows == 2
MaxStoredIf == 2

HJournal == Str(<<"J","o","u","r","n","a","l">>)
HTitle == Str(<<"T","i","t","l","e">>)
HJif == Str(<<"J","I","F">>)
HIf2023 == Str(<<"I","F"," ","2","0","2","3">>)
HYear == Num(Year)
HPercentSign == Str(<<"%">>)
HPercentile == Str(<<"P","e","r","c","e","n","t","i","l","e">>)
HCategory == Str(<<"C","a","t","e","g","o","r","y">>)
HKoField == Str(KoField)
HRank == Str(<<"R","a","n","k">>)
HKoRank == Str(KoRank)

NameMASSE == <<"M","A","S","S","E">>
NameMasze == <<"M","a","sz","e">>
NameUncased == <<"1","-","2","3">>
NamePadded == <<" ","a","b","c"," ">>
NameDigits == <<"1","2","3","4">>
NameBlank == <<" ">>

NameCells == {NaN, Str(NameMASSE), Str(NameMasze), Str(NameUncased)}
IfCells == {NaN, Num(10), Num(15)}

WideNameCells == {NaN, Str(NameMASSE), Str(NameUncased), Str(NamePadded),
                  Str(NameDigits), Str(NameBlank), Num(2023)}
WideIfCells == {NaN, Num(0), Num(10), Num(IfUpper), Num(IfUpper - 1), Num(-1),
                Str(<<"1","0","0","0">>), Str(<<"7">>), Str(<<"x">>)}
WidePercentCells == {NaN, Num(0), Num(50), Num(PercentileMax + 1),
                     Str(<<"5","0","%">>), Str(<<"x">>)}
WideTextCells == {NaN, Str(<<"Q","1">>), Str(<<" ","P","h","y","s">>), Num(3)}
WideRankCells == {NaN, Num(0), Num(3), Str(<<"4">>), Str(<<"Q","1">>)}

SheetKinds == {"names", "year", "ranks"}
WideSheetKinds == {"two names", "two factors", "two percentiles", "two categories",
                   "two ranks", "number header", "no name"}

KindColumns(k) ==
  CASE k = "names" -> <<HJournal, HJif>>
    [] k = "year" -> <<HTitle, HYear>>
    [] k = "ranks" -> <<HRank, HJif>>
    [] k = "two names" -> <<HJournal, HTitle, HJif>>
    [] k = "two factors" -> <<HJournal, HJif, HIf2023>>
    [] k = "two percentiles" -> <<HJournal, HPercentSign, HPercentile>>
    [] k = "two categories" -> <<HJournal, HCategory, HKoField>>
    [] k = "two ranks" -> <<HJournal, HRank, HKoRank>>
    [] k = "number header" -> <<HJournal, HYear>>
    [] k = "no name" -> <<HRank, HJif>>

KindCells(k) ==
  CASE k = "names" -> <<NameCells, IfCells>>
    [] k = "year" -> <<{Str(NameMASSE)}, {Num(15)}>>
    [] k = "ranks" -> <<{Num(3)}, {Num(10)}>>
    [] k = "two names" -> <<WideNameCells, WideNameCells, WideIfCells>>
    [] k = "two factors" -> <<{Str(NameMASSE)}, WideIfCells, WideIfCells>>
    [] k = "two percentiles" -> <<{Str(NameMASSE)}, WidePercentCells, WidePercentCells>>
    [] k = "two categories" -> <<{Str(NameMASSE)}, WideTextCells, WideTextCells>>
    [] k = "two ranks" -> <<{Str(NameMASSE)}, WideRankCells, WideRankCells>>
    [] k = "number header" -> <<{Str(NameMASSE)}, {Num(7)}>>
    [] k = "no name" -> <<{Num(3)}, WideIfCells>>

RECURSIVE TotalRows(_)
TotalRows(wb) == IF wb = <<>> THEN 0 ELSE Head(wb).nrows + TotalRows(Tail(wb))

\* the numbers of rows of a sheet of kind k
KindRows(k, nr) ==
  CASE k = "names" -> 1..nr
    [] k = "ranks" -> 0..1
    [] OTHER -> {1}

\* the workbooks of up to ns sheets of the given kinds and nr rows in all
Workbooks(kinds, ns, nr) ==
  LET sheets == UNION {[kind : {k}, nrows : KindRows(k, nr)] : k \in kinds}
  IN {wb \in UNION {[1..m -> sheets] : m \in 1..ns} : TotalRows(wb) <= nr}

\* the tuples with one element of each set of the sequence sets
RECURSIVE Product(_)
Product(sets) ==
  IF sets = <<>> THEN {<<>>}
  ELSE {<<a>> \o rest : a \in Head(sets), rest \in Product(Tail(sets))}

\* the rows a sheet of kind k may hold: one cell per column
RowsOf(k) == Product(KindCells(k))

Scripts == {"proper", "check"}

(***************************************************************************)
(* State.                                                                  *)
(***************************************************************************)
VARIABLES
  script,         \* which of the two scripts runs
  workbook,       \* the spreadsheet file (input)
  pc,             \* position of the run
  sheetNo,        \* sheet_name: number of the sheet being processed
  columns,        \* df.columns
  nrows,          \* len(df)
  index,          \* rows of df processed so far
  row,            \* the row processed last
  journal_name, impact_factor, percentile, category, rank,
  entry,          \* the entry built last
  journal_db,
  filtered_db,
  outFile,        \* the JSON file at output_path
  printed,        \* the count printed in the summary
  failedAt,       \* where an exception was raised
  reported,       \* the handler printed the error and the trace
  opens,          \* how often the workbook was opened
  seen            \* the name and impact factor of every row that built an entry,
                  \* and whether the entry was stored

vars == <<script, workbook, pc, sheetNo, columns, nrows, index, row, journal_name,
          impact_factor, percentile, category, rank, entry, journal_db,
          filtered_db, outFile, printed, failedAt, reported, opens, seen>>

scanned == <<row, journal_name, impact_factor, percentile, category, rank>>

Untouched == [state |-> "untouched", data |-> EmptyDb]
Written(db) == [state |-> "written", data |-> db]
Partial == [state |-> "partial", data |-> EmptyDb]

InitWith(wbs) ==
  /\ script \in Scripts
  /\ workbook \in wbs
  /\ pc = "open"
  /\ sheetNo = 0
  /\ columns = <<>>
  /\ nrows = 0
  /\ index = 0
  /\ row = <<>>
  /\ journal_name = NoneV
  /\ impact_factor = NoneV
  /\ percentile = NoneV
  /\ category = NoneV
  /\ rank = NoneV
  /\ entry = NoneV
  /\ journal_db = EmptyDb
  /\ filtered_db = EmptyDb
  /\ outFile = Untouched
  /\ printed = -1
  /\ failedAt = "nowhere"
  /\ reported = FALSE
  /\ opens = 0
  /\ seen = {}

Init == InitWith(Workbooks(SheetKinds, MaxSheets, MaxRows))

\* an exception propagates to the except clause
Raise(where) ==
  /\ pc' = "handler"
  /\ failedAt' = where

\* where the run continues after a sheet was read or a row processed
AfterRows(no, i, n) ==
  IF i < n THEN "rows"
  ELSE IF script = "proper" /\ no < Len(workbook) THEN "sheet"
  ELSE IF script = "proper" THEN "filter"
  ELSE "save"

\* xl = pd.ExcelFile(excel_file)
OpenWorkbook ==
  /\ pc = "open"
  /\ opens' = opens + 1
  /\ \/ pc' = "sheet" /\ UNCHANGED failedAt
     \/ Raise("open")
  /\ UNCHANGED <<script, workbook, sheetNo, columns, nrows, index, scanned, entry,
                 journal_db, filtered_db, outFile, printed, reported, seen>>

\* df = pd.read_excel(excel_file, sheet_name=...): the next sheet of the loop
\* in extract_journal_proper.py, sheet 0 in check_excel.py
ReadSheet ==
  /\ pc = "sheet"
  /\ sheetNo < Len(workbook)
  /\ sheetNo' = sheetNo + 1
  /\ \/ /\ columns' = KindColumns(workbook[sheetNo + 1].kind)
        /\ nrows' = workbook[sheetNo + 1].nrows
        /\ index' = 0
        /\ pc' = AfterRows(sheetNo + 1, 0, workbook[sheetNo + 1].nrows)
        /\ UNCHANGED failedAt
     \/ /\ Raise("read")
        /\ UNCHANGED <<columns, nrows, index>>
  /\ UNCHANGED <<script, workbook, scanned, entry, journal_db, filtered_db, outFile,
                 printed, reported, opens, seen>>

\* one iteration of "for index, row in df.iterrows()" of extract_journal_proper.py
ProperProcessRow ==
  /\ script = "proper"
  /\ pc = "rows"
  /\ index < nrows
  /\ \E r \in RowsOf(workbook[sheetNo].kind) :
       LET name == ProperScan("name", columns, r)
           imp == ProperScan("impact", columns, r)
           pct == ProperScan("percentile", columns, r)
           cat == ProperScan("category", columns, r)
           rnk == ProperScan("rank", columns, r)
           e == ProperEntry(name, imp, pct, cat, rnk, sheetNo)
       IN /\ row' = r
          /\ journal_name' = name
          /\ impact_factor' = imp
          /\ percentile' = pct
          /\ category' = cat
          /\ rank' = rnk
          /\ IF ProperRowValid(name)
             THEN /\ entry' = e
                  /\ journal_db' = ProperMerge(journal_db, name, e, imp)
                  /\ seen' = seen \cup {[name |-> name.s, imp |-> e.impactFactor,
                                       stored |-> ProperShouldStore(journal_db, Upper(name.s), imp)]}
             ELSE UNCHANGED <<entry, journal_db, seen>>
  /\ index' = index + 1
  /\ pc' = AfterRows(sheetNo, index + 1, nrows)
  /\ UNCHANGED <<script, workbook, sheetNo, columns, nrows, filtered_db, outFile,
                 printed, failedAt, reported, opens>>

\* one iteration of "for index, row in df.iterrows()" of check_excel.py
CheckProcessRow ==
  /\ script = "check"
  /\ pc = "rows"
  /\ index < nrows
  /\ \E r \in RowsOf(workbook[sheetNo].kind) :
       LET name == CheckScanName(columns, r)
           imp == CheckScanNumber("impact", columns, r)
           pct == CheckScanNumber("percentile", columns, r)
           e == CheckEntry(name.val, imp.val, pct.val)
       IN /\ row' = r
          /\ IF name.err
             THEN /\ Raise("rows")
                  /\ UNCHANGED <<journal_name, impact_factor, percentile, entry,
                                 journal_db, seen, index>>
             ELSE IF imp.err
             THEN /\ Raise("rows")
                  /\ journal_name' = name.val
                  /\ UNCHANGED <<impact_factor, percentile, entry, journal_db, seen, index>>
             ELSE IF pct.err
             THEN /\ Raise("rows")
                  /\ journal_name' = name.val
                  /\ impact_factor' = imp.val
                  /\ UNCHANGED <<percentile, entry, journal_db, seen, index>>
             ELSE /\ journal_name' = name.val
                  /\ impact_factor' = imp.val
                  /\ percentile' = pct.val
                  /\ index' = index + 1
                  /\ pc' = AfterRows(sheetNo, index + 1, nrows)
                  /\ UNCHANGED failedAt
                  /\ IF Truthy(name.val)
                     THEN /\ entry' = e
                          /\ journal_db' = CheckStore(journal_db, name.val, e)
                          /\ seen' = seen \cup {[name |-> name.val.s, imp |-> e.impactFactor,
                                               stored |-> TRUE]}
                     ELSE UNCHANGED <<entry, journal_db, seen>>
  /\ UNCHANGED <<script, workbook, sheetNo, columns, nrows, category, rank,
                 filtered_db, outFile, printed, reported, opens>>

\* the post-filter of extract_journal_proper.py
PostFilter ==
  /\ script = "proper"
  /\ pc = "filter"
  /\ filtered_db' = Filter(journal_db)
  /\ pc' = "save"
  /\ UNCHANGED <<script, workbook, sheetNo, columns, nrows, index, scanned, entry,
                 journal_db, outFile, printed, failedAt, reported, opens, seen>>

\* the database the script writes
FinalDb == IF script = "proper" THEN filtered_db ELSE journal_db

\* os.makedirs(...); with open(output_path, 'w') as f: json.dump(...)
Serialize ==
  /\ pc = "save"
  /\ \/ /\ outFile' = Written(FinalDb)
        /\ pc' = "summary"
        /\ UNCHANGED failedAt
     \/ /\ Raise("write")
        /\ outFile' \in {outFile, Partial}
  /\ UNCHANGED <<script, workbook, sheetNo, columns, nrows, index, scanned, entry,
                 journal_db, filtered_db, printed, reported, opens, seen>>

\* print(f"Created journal database with {len(db)//2} unique journals")
Summary ==
  /\ pc = "summary"
  /\ printed' = UniqueCount(FinalDb)
  /\ pc' = "done"
  /\ UNCHANGED <<script, workbook, sheetNo, columns, nrows, index, scanned, entry,
                 journal_db, filtered_db, outFile, failedAt, reported, opens, seen>>

\* the script ends after the except clause
AfterHandler(p) == IF p = "handler" THEN "failed" ELSE p

\* except Exception as e: print(...); traceback.print_exc()
Handler ==
  /\ pc = "handler"
  /\ reported' = TRUE
  /\ pc' = AfterHandler(pc)
  /\ UNCHANGED <<script, workbook, sheetNo, columns, nrows, index, scanned, entry,
                 journal_db, filtered_db, outFile, printed, failedAt, opens, seen>>

Next ==
  \/ OpenWorkbook
  \/ ReadSheet
  \/ ProperProcessRow
  \/ CheckProcessRow
  \/ PostFilter
  \/ Serialize
  \/ Summary
  \/ Handler

Spec == Init /\ [][Next]_vars

(***************************************************************************)
(* The same program on one-row workbooks with wider sheets: several        *)
(* columns of one field, and cells of every kind the coercions tell apart. *)
(***************************************************************************)
InitRow ==
  InitWith(Workbooks(WideSheetKinds, 1, 1))

SpecRow == InitRow /\ [][Next]_vars

(***************************************************************************)
(* The post-filter and what follows it, started on an arbitrary database.  *)
(***************************************************************************)
StoredKeys == {Upper(NameMASSE), Lower(NameMASSE), Lower(NameMasze), NameUncased}

StoredEntry(k, v) ==
  ProperEntry(Str(k), Num(v), NoneV, NoneV, NoneV, 1)

Databases ==
  UNION {[ks -> 0..MaxStoredIf] : ks \in SUBSET StoredKeys}

InitFilter ==
  /\ script = "proper"
  /\ workbook = <<[kind |-> "names", nrows |-> 0]>>
  /\ pc = "filter"
  /\ sheetNo = 1
  /\ columns = <<HJournal, HJif>>
  /\ nrows = 0
  /\ index = 0
  /\ row = <<>>
  /\ journal_name = NoneV
  /\ impact_factor = NoneV
  /\ percentile = NoneV
  /\ category = NoneV
  /\ rank = NoneV
  /\ entry = NoneV
  /\ \E d \in Databases : journal_db = [k \in DOMAIN d |-> StoredEntry(k, d[k])]
  /\ filtered_db = EmptyDb
  /\ outFile = Untouched
  /\ printed = -1
  /\ failedAt = "nowhere"
  /\ reported = FALSE
  /\ opens = 1
  /\ seen = {}

NextFilter == PostFilter \/ Serialize \/ Summary \/ Handler

SpecFilter == InitFilter /\ [][NextFilter]_vars


(***************************************************************************)
(* Properties.                                                             *)
(***************************************************************************)
MaxOf(S) == IF S = {} THEN 0 ELSE CHOOSE m \in S : \A v \in S : v <= m

\* the highest impact factor among the rows whose name equals n up to case
BestIf(n) == MaxOf({q.imp : q \in {p \in seen : Upper(p.name) = Upper(n)}})

\* the keys a journal name is stored under
KeysOf(n) == {Upper(n), Lower(n)}

\* C1: in extract_journal_proper.py the record stored for a journal name,
\* under either of its keys, holds the maximum of the impact factors of all
\* rows whose name matches it case-insensitively (0 when none was accepted),
\* whatever the order of the rows.
C1_StoredIsMaximum ==
  script = "proper" =>
    \A p \in seen : \A k \in KeysOf(p.name) \cap DOMAIN journal_db :
       journal_db[k].impactFactor = BestIf(p.name)

\* The part of C1 the code does keep: the record under the upper-case key
\* holds the maximum.
UpperKeyIsMaximum ==
  script = "proper" =>
    \A p \in seen :
       /\ Upper(p.name) \in DOMAIN journal_db
       /\ journal_db[Upper(p.name)].impactFactor = BestIf(p.name)

\* the two keys of name n are both present in db with the same record, or
\* both absent
PairedIn(db, n) ==
  \/ KeysOf(n) \cap DOMAIN db = {}
  \/ KeysOf(n) \subseteq DOMAIN db /\ db[Upper(n)] = db[Lower(n)]

\* C2: in extract_journal_proper.py, after any prefix of the rows, every
\* journal name that was inserted has its upper-case and its lower-case key
\* in the database, mapping to identical records; and the post-filter keeps
\* or drops the two keys of a name together.
C2_CaseKeysInSync ==
  script = "proper" =>
    \A p \in {q \in seen : q.stored} :
       /\ KeysOf(p.name) \subseteq DOMAIN journal_db
       /\ journal_db[Upper(p.name)] = journal_db[Lower(p.name)]
       /\ pc \in {"save", "summary", "done"} => PairedIn(filtered_db, p.name)

\* the run of extract_journal_proper.py is past the post-filter
Filtered == script = "proper" /\ pc \in {"save", "summary", "done"}

\* the keys of the records of the pre-filter database with an impact factor
WithImpact == {k \in DOMAIN journal_db : journal_db[k].impactFactor > 0}

\* C3: the emitted database of extract_journal_proper.py is exactly the
\* key/record pairs of the pre-filter database whose impactFactor is > 0,
\* or the whole pre-filter database when there is no such pair; it is
\* non-empty whenever a row yielded a record; and it is what is written.
C3_EmittedIsFiltered ==
  Filtered =>
    /\ WithImpact # {} =>
         /\ DOMAIN filtered_db = WithImpact
         /\ \A k \in WithImpact : filtered_db[k] = journal_db[k]
    /\ WithImpact = {} => filtered_db = journal_db
    /\ seen # {} => DOMAIN filtered_db # {}
    /\ outFile.state = "written" => outFile.data = filtered_db

\* C3 witness: a finished run whose filter dropped a record and kept another
C3_Witness ==
  /\ Filtered
  /\ pc = "done"
  /\ WithImpact # {}
  /\ WithImpact # DOMAIN journal_db
  /\ outFile = Written(filtered_db)

\* the columns of the row whose header classifies them as field f
ColumnsOf(f, cols) == {i \in 1..Len(cols) : ProperHeaderMatches(f, cols[i])}

\* the cell can serve as a journal name: present, not blank, not all digits
UsableName(c) ==
  /\ c # NaN
  /\ \E i \in 1..Len(PyStr(c)) : PyStr(c)[i] # " "
  /\ \E i \in 1..Len(PyStr(c)) : PyStr(c)[i] \notin {Digits[d] : d \in 1..Len(Digits)}

\* the columns of row r that give a journal name
NameSources(cols, r) == {i \in ColumnsOf("name", cols) : UsableName(r[i])}

\* a journal name is extracted from row r and its trimmed length exceeds 3
Offered(cols, r) ==
  /\ NameSources(cols, r) # {}
  /\ Len(Strip(PyStr(r[MaxOf(NameSources(cols, r))]))) > MinNameLen

\* C4: in extract_journal_proper.py a row is offered to the merge step if
\* and only if a journal name was extracted from a name-classified column
\* and its trimmed length is greater than 3; every other row leaves the
\* database unchanged and raises no error.
C4_RowOfferedIffNamed ==
  [][(script = "proper" /\ pc = "rows") =>
       /\ pc' # "handler"
       /\ failedAt' = failedAt
       /\ IF Offered(columns, row')
          THEN /\ entry'.originalName = Strip(PyStr(row'[MaxOf(NameSources(columns, row'))]))
               /\ entry'.sheet = sheetNo
               /\ \E p \in seen' : p.name = entry'.originalName
               /\ KeysOf(entry'.originalName) \subseteq DOMAIN journal_db'
          ELSE /\ journal_db' = journal_db
               /\ entry' = entry
               /\ seen' = seen]_vars

\* C4 witness: a row with an unusable name was processed, no error was
\* raised and the database is still empty
C4_Witness ==
  /\ script = "proper"
  /\ pc = "done"
  /\ row # <<>>
  /\ ColumnsOf("name", columns) # {}
  /\ ~Offered(columns, row)
  /\ \E i \in ColumnsOf("name", columns) : row[i] = Str(NamePadded)
  /\ journal_db = EmptyDb

\* the number a cell holds, if it holds one in the accepted range
InRange(c) ==
  /\ IsNum(PyFloat(c))
  /\ 0 < PyFloat(c).v
  /\ PyFloat(c).v < IfUpper

\* C5: the impactFactor of the record built from a row is 0 whenever no
\* impact-factor cell holds a value v with 0 < v < 500 (out of range,
\* missing or not a number), and is such a value v otherwise; with a single
\* impact-factor column it is v exactly when that cell's v is in range.
C5_ImpactFactorInRange ==
  (script = "proper" /\ row # <<>> /\ Offered(columns, row)) =>
    LET cs == ColumnsOf("impact", columns)
        ok == {i \in cs : InRange(row[i])}
    IN /\ ok = {} => entry.impactFactor = 0
       /\ ok # {} => \E i \in ok : entry.impactFactor = PyFloat(row[i]).v
       /\ (Cardinality(cs) = 1 /\ ok # {}) =>
            \A i \in cs : entry.impactFactor = PyFloat(row[i]).v
       /\ entry.impactFactor >= 0 /\ entry.impactFactor < IfUpper

\* C5 witness: a record was built from a row whose only impact-factor cell
\* is the text "1000", and its impactFactor is 0
C5_Witness ==
  /\ script = "proper"
  /\ row # <<>>
  /\ Offered(columns, row)
  /\ Cardinality(ColumnsOf("impact", columns)) = 1
  /\ \A i \in ColumnsOf("impact", columns) : row[i] = Str(<<"1","0","0","0">>)
  /\ entry.impactFactor = 0

\* the value field f gets from the first column whose header matches the
\* field and whose cell is usable for it
FirstMatch(f, cols, r) ==
  LET cs == {i \in ColumnsOf(f, cols) : ProperAccepts(f, r[i])}
      first == CHOOSE i \in cs : \A j \in cs : i <= j
  IN IF cs = {} THEN NoneV ELSE ProperCoerce(f, r[first])

\* C6: each field of a row is taken from the first column, in sheet column
\* order, whose header matches the field: later matching columns do not
\* change the extracted value.
C6_FirstMatchingColumnWins ==
  (script = "proper" /\ row # <<>>) =>
    /\ journal_name = FirstMatch("name", columns, row)
    /\ impact_factor = FirstMatch("impact", columns, row)
    /\ percentile = FirstMatch("percentile", columns, row)
    /\ category = FirstMatch("category", columns, row)
    /\ rank = FirstMatch("rank", columns, row)

\* a failure before the serializer
EarlyFailures == {"open", "read", "rows"}

\* every sheet the script reads has been read and every row processed
AllProcessed ==
  /\ sheetNo = (IF script = "proper" THEN Len(workbook) ELSE 1)
  /\ index = nrows

\* C7: in both scripts the output file is written only after every sheet
\* and row was processed; a failure while opening the workbook, reading a
\* sheet or processing rows goes to the handler, which reports it, and the
\* run ends with the output file untouched and nothing retried.
C7_FailureWritesNothing ==
  /\ [](/\ outFile # Untouched => (AllProcessed /\ failedAt \notin EarlyFailures)
        /\ failedAt \in EarlyFailures => (pc \in {"handler", "failed"} /\ outFile = Untouched)
        /\ failedAt # "nowhere" => pc \in {"handler", "failed"}
        /\ pc = "failed" => reported
        /\ opens <= 1)
  /\ [][/\ pc = "handler" => (pc' = "failed" /\ reported' /\ outFile' = outFile)
        /\ pc = "failed" => FALSE
        /\ failedAt' # failedAt => pc' = "handler"]_vars

\* C7 witness: check_excel.py failed while processing a row, the handler
\* reported it and the output file is untouched
C7_Witness ==
  /\ pc = "failed"
  /\ failedAt = "rows"
  /\ reported
  /\ outFile = Untouched

\* C8: the post-filter is idempotent: filtering its result again gives the
\* same database.
C8_FilterIdempotent ==
  pc # "filter" => Filter(filtered_db) = filtered_db

\* C8 witness: the filter dropped some records of the database and kept others
C8_Witness ==
  /\ pc = "save"
  /\ filtered_db # journal_db
  /\ Cardinality(DOMAIN filtered_db) > 1

\* C9: in check_excel.py a stored record is replaced only by a row with a
\* strictly greater impact factor, so the record of a name holds the
\* highest impact factor seen for that name.
C9_CheckKeepsMaximum ==
  script = "check" =>
    \A p \in seen : journal_db[Upper(p.name)].impactFactor = BestIf(p.name)

\* the distinct journal records of database db
Records(db) == {db[k] : k \in DOMAIN db}

\* C10: the count of unique journals printed in the summary equals the
\* number of distinct journal records of the emitted database.
C10_PrintedCountIsRecordCount ==
  pc = "done" => printed = Cardinality(Records(FinalDb))

====
